---------------------------- MODULE Spec2Model ----------------------------
(***************************************************************************)
(* Open-LISA SDK: the client side request/response protocol                *)
(* (Open_LISA_SDK/domain/protocol/client_protocol.py) over a message       *)
(* channel, against a server that answers each command invocation.         *)
(*                                                                         *)
(* A ClientProtocol method is a straight-line program of send_msg,         *)
(* receive_msg and __is_valid_response calls.  Each method is an operator  *)
(* that threads an execution record `io` through those calls, in the order *)
(* of the source.  The record holds the calls made so far (log), the       *)
(* messages the server has put on the channel and the client has not read  *)
(* (chan), whether the transport is open, and how the method ended.        *)
(***************************************************************************)
EXTENDS Integers, Sequences, FiniteSets, TLC

VARIABLES
    open,        \* the transport under the ClientProtocol is open
    chan,        \* server -> client messages not yet received by the client
    conforming,  \* every reply so far was a Response of the command table
    op,          \* name of the last ClientProtocol method called ("" : none)
    args,        \* its arguments
    pre,         \* the unread messages on the channel when it started
    reply,       \* what the server answered to its invocation
    log,         \* the calls it made on the message protocol, in order
    outcome,     \* how it ended: returned a value, raised, or is blocked
    rs,          \* the call of SDK.connect_through_RS232, if one was made
    link,        \* messages the connection still carries before it breaks
                 \* (Unbroken: it does not break)
    tcp          \* the latest call of SDK.connect_through_TCP, if any

vars ==
    <<open, chan, conforming, op, args, pre, reply, log, outcome, rs, link,
      tcp>>

---------------------------------------------------------------------------
(* Bounds of the model *)

\* the most serial devices there are
MaxPorts == 3

\* the largest TCP port number a text is parsed to
MaxPortNumber == 99

\* the most messages a connection that is about to break still carries
MaxCarried == 4

\* the connection does not break
Unbroken == -1

\* an operation is started only while at most this many messages are unread
MaxUnread == 1

---------------------------------------------------------------------------
(* Python values.  Fields are named per type so that values of different   *)
(* types are different records.                                            *)

Str(s)      == [type |-> "str", s |-> s]
IntV(n)     == [type |-> "int", n |-> n]
Bool(b)     == [type |-> "bool", b |-> b]
None        == [type |-> "NoneType"]
\* bytes: either the UTF-8 encoding of a text, or a byte sequence that is
\* not valid UTF-8 (every such sequence in the model holds the byte 255)
BytesOf(s)  == [type |-> "bytes", utf8 |-> s]
RawBytes(q) == [type |-> "bytes", raw |-> q]
Tuple(q)    == [type |-> "tuple", items |-> q]
\* the dict of a command execution result: {"type": t, "value": v}
ResultDict(t, v) == [type |-> "dict", rtype |-> t, value |-> v]
JsonList(s) == [type |-> "list", json |-> s]

IsStr(x)   == x.type = "str"
IsBytes(x) == x.type = "bytes"

Digit == <<"0", "1", "2", "3", "4", "5", "6", "7", "8", "9">>

RECURSIVE NatText(_)
NatText(n) == IF n < 10 THEN Digit[n + 1]
              ELSE NatText(n \div 10) \o Digit[(n % 10) + 1]

\* the items of a dict of texts as repr() writes them
RECURSIVE repr_items(_)
repr_items(kv) ==
    IF kv = <<>> THEN ""
    ELSE "'" \o kv[1][1] \o "': '" \o kv[1][2] \o "'"
         \o (IF Len(kv) > 1 THEN ", " ELSE "") \o repr_items(Tail(kv))

\* str(x)
py_str(x) ==
    CASE x.type = "str"      -> x
      [] x.type = "int"      -> Str(IF x.n < 0 THEN "-" \o NatText(-(x.n))
                                               ELSE NatText(x.n))
      [] x.type = "bool"     -> Str(IF x.b THEN "True" ELSE "False")
      [] x.type = "NoneType" -> Str("None")
      [] x.type = "bytes"    -> Str("b'" \o x.utf8 \o "'")
      [] x.type = "dict"     -> Str("{" \o repr_items(x.items) \o "}")

\* bool(x), as `if x:` evaluates it
py_truthy(x) ==
    CASE x.type = "str"      -> x.s # ""
      [] x.type = "int"      -> x.n # 0
      [] x.type = "bool"     -> x.b
      [] x.type = "NoneType" -> FALSE
      [] x.type = "bytes"    -> x # BytesOf("")

---------------------------------------------------------------------------
(* Program constants *)

SUCCESS_RESPONSE == "OK"
ERROR_RESPONSE   == "ERROR"

COMMAND_DISCONNECT              == "DISCONNECT"
COMMAND_GET_INSTRUMENTS         == "GET_INSTRUMENTS"
COMMAND_GET_INSTRUMENT          == "GET_INSTRUMENT"
COMMAND_CREATE_INSTRUMENT       == "CREATE_INSTRUMENT"
COMMAND_UPDATE_INSTRUMENT       == "UPDATE_INSTRUMENT"
COMMAND_DELETE_INSTRUMENT       == "DELETE_INSTRUMENT"
COMMAND_GET_INSTRUMENT_COMMANDS == "GET_INSTRUMENT_COMMANDS"
COMMAND_VALIDATE_COMMAND        == "VALIDATE_COMMAND"
COMMAND_SEND_COMMAND            == "SEND_COMMAND"
COMMAND_GET_FILE                == "GET_FILE"
COMMAND_SEND_FILE               == "SEND_FILE"
COMMAND_EXECUTE_BASH            == "EXECUTE_BASH"
COMMAND_RESET_DATABASES         == "RESET_DATABASES"

---------------------------------------------------------------------------
(* The execution record of one method call *)

\* status: "run" while the method executes; "return", "raise" or "blocked"
\* once it has ended.  A step applied to an ended execution changes nothing.
Start(ch, isOpen) ==
    [log |-> <<>>, chan |-> ch, open |-> isOpen, link |-> link,
     status |-> "run",
     exc |-> "", value |-> None, got |-> None, valid |-> FALSE]

Running(io) == io.status = "run"

\* `return v`
Return(io, v) ==
    IF ~Running(io) THEN io
    ELSE [io EXCEPT !.status = "return", !.value = v]

\* `raise E(v)`
Raise(io, e, v) ==
    IF ~Running(io) THEN io
    ELSE [io EXCEPT !.status = "raise", !.exc = e, !.value = v]

SendEv(msg, encode)  == [ev |-> "send", msg |-> msg, encode |-> encode]
RecvEv(msg, decode)  == [ev |-> "recv", msg |-> msg, decode |-> decode]
CheckEv(msg)         == [ev |-> "check", msg |-> msg]
CloseEv              == [ev |-> "close"]

---------------------------------------------------------------------------
(* MessageProtocol: the framing layer under the ClientProtocol *)

\* MessageProtocol.send_msg(msg, encode=True): a text is encoded to bytes
\* and framed; with encode=False the bytes are framed as they are.
send_msg(io, msg, encode) ==
    IF ~Running(io) THEN io
    ELSE IF ~io.open THEN Raise(io, "ClosedChannelError", None)
    ELSE IF encode /\ ~IsStr(msg) THEN Raise(io, "AttributeError", msg)
    ELSE IF ~encode /\ ~IsBytes(msg) THEN Raise(io, "TypeError", msg)
    ELSE IF io.link = 0 THEN Raise(io, "TransportError", None)
    ELSE [io EXCEPT !.log = Append(@, SendEv(msg, encode)),
                    !.link = IF @ = Unbroken THEN @ ELSE @ - 1]

\* the bytes a send event puts on the wire
WireOf(e) == IF e.encode THEN BytesOf(e.msg.s) ELSE e.msg

\* MessageProtocol.receive_msg(decode=True): blocks until one whole message
\* has arrived; with decode=True the bytes are decoded as UTF-8.  Every call
\* is logged: with the value it returned, with None when it blocks, with the
\* undecodable bytes when decoding fails.
receive_msg(io, decode) ==
    IF ~Running(io) THEN io
    ELSE IF ~io.open THEN Raise(io, "ClosedChannelError", None)
    ELSE IF io.chan = <<>> /\ io.link = 0
      THEN Raise(io, "TransportError", None)
    ELSE IF io.chan = <<>>
      THEN [io EXCEPT !.status = "blocked",
                      !.log = Append(@, RecvEv(None, decode))]
    ELSE LET m == Head(io.chan)
             rest == [io EXCEPT !.chan = Tail(@)]
         IN  IF ~decode
               THEN [rest EXCEPT !.got = m,
                                 !.log = Append(@, RecvEv(m, FALSE))]
             ELSE IF "utf8" \in DOMAIN m
               THEN [rest EXCEPT !.got = Str(m.utf8),
                                 !.log = Append(@, RecvEv(Str(m.utf8), TRUE))]
             ELSE Raise([rest EXCEPT !.log = Append(@, RecvEv(m, TRUE))],
                        "UnicodeDecodeError", m)

\* MessageProtocol.disconnect(): closes the transport
mp_disconnect(io) ==
    IF ~Running(io) THEN io
    ELSE [io EXCEPT !.open = FALSE, !.log = Append(@, CloseEv)]


---------------------------------------------------------------------------
(* json and base64, on the texts of the model *)

JSON_ARRAY   == "[]"
JSON_OBJECT  == "{\"id\": 3}"
JSON_BYTES   == "{\"type\": \"BYTES\", \"value\": \"aGVsbG8=\"}"
JSON_RAW     == "{\"type\": \"BYTES\", \"value\": \"/wA=\"}"
JSON_STRING  == "{\"type\": \"STRING\", \"value\": \"aGVsbG8=\"}"

\* json.loads(s): the parsed value, or JSONDecodeError
json_loads(s) ==
    CASE s = JSON_BYTES  -> ResultDict("BYTES", Str("aGVsbG8="))
      [] s = JSON_RAW    -> ResultDict("BYTES", Str("/wA="))
      [] s = JSON_STRING -> ResultDict("STRING", Str("aGVsbG8="))
      [] s = JSON_OBJECT -> [type |-> "dict", id |-> IntV(3)]
      [] s = JSON_ARRAY  -> JsonList(s)
      [] s = "0"         -> IntV(0)
      [] OTHER           -> [type |-> "JSONDecodeError"]

\* base64.b64decode(s)
b64decode(s) ==
    CASE s = "aGVsbG8=" -> BytesOf("hello")
      [] s = "/wA="     -> RawBytes(<<255, 0>>)
      [] OTHER          -> [type |-> "binascii.Error"]

\* json.dumps(d) of a flat dict of texts, given as its items in order
RECURSIVE json_items(_)
json_items(kv) ==
    IF kv = <<>> THEN ""
    ELSE "\"" \o kv[1][1] \o "\": \"" \o kv[1][2] \o "\""
         \o (IF Len(kv) > 1 THEN ", " ELSE "") \o json_items(Tail(kv))

json_dumps(d) == Str("{" \o json_items(d.items) \o "}")

\* a dict argument: its (key, value) items in insertion order
Dict(kv) == [type |-> "dict", items |-> kv]

---------------------------------------------------------------------------
(* ClientProtocol *)

\* a call that returned leaves its value in `got` and the caller goes on
Called(io) ==
    IF io.status = "return"
    THEN [io EXCEPT !.status = "run", !.got = io.value, !.value = None]
    ELSE io

\* __is_valid_response that takes every text but "ERROR" for success
is_valid_response_lenient(io, response) ==
    IF ~Running(io) THEN io
    ELSE LET c == [io EXCEPT !.log = Append(@, CheckEv(response))]
         IN  IF response = Str(ERROR_RESPONSE)
               THEN [c EXCEPT !.valid = FALSE]
             ELSE [c EXCEPT !.valid = TRUE]

\* ClientProtocol.__is_valid_response
is_valid_response(io, response) ==
    IF ~Running(io) THEN io
    ELSE LET c == [io EXCEPT !.log = Append(@, CheckEv(response))]
         IN  IF response = Str(SUCCESS_RESPONSE)
               THEN [c EXCEPT !.valid = TRUE]
             ELSE IF response = Str(ERROR_RESPONSE)
               THEN [c EXCEPT !.valid = FALSE]
             ELSE Raise(c, "Exception",
                        Str("unknown response type: '"
                            \o py_str(response).s \o "'"))

\* disconnect that closes the transport before it sends DISCONNECT
disconnect_closes_first(io) ==
    LET s1 == mp_disconnect(io)
        s2 == send_msg(s1, Str(COMMAND_DISCONNECT), TRUE)
    IN  Return(s2, None)

\* ClientProtocol.disconnect
disconnect(io) ==
    LET s1 == send_msg(io, Str(COMMAND_DISCONNECT), TRUE)
        s2 == mp_disconnect(s1)
    IN  Return(s2, None)

\* ClientProtocol.create_instrument_as_json_string
create_instrument_as_json_string(io, new_instrument) ==
    LET s1 == send_msg(io, Str(COMMAND_CREATE_INSTRUMENT), TRUE)
        s2 == send_msg(s1, json_dumps(new_instrument), TRUE)
        r1 == receive_msg(s2, TRUE)
        r2 == receive_msg(r1, TRUE)
        v  == is_valid_response(r2, r1.got)
    IN  IF v.valid THEN Return(v, r2.got)
        ELSE Raise(v, "OpenLISAException", r2.got)

\* ClientProtocol.update_instrument_as_json_string
update_instrument_as_json_string(io, id, updated_instrument) ==
    LET s1 == send_msg(io, Str(COMMAND_UPDATE_INSTRUMENT), TRUE)
        s2 == send_msg(s1, py_str(id), TRUE)
        s3 == send_msg(s2, json_dumps(updated_instrument), TRUE)
        r1 == receive_msg(s3, TRUE)
        r2 == receive_msg(r1, TRUE)
        v  == is_valid_response(r2, r1.got)
    IN  IF v.valid THEN Return(v, r2.got)
        ELSE Raise(v, "OpenLISAException", r2.got)

\* ClientProtocol.delete_instrument_as_json_string
delete_instrument_as_json_string(io, id) ==
    LET s1 == send_msg(io, Str(COMMAND_DELETE_INSTRUMENT), TRUE)
        s2 == send_msg(s1, py_str(id), TRUE)
        r1 == receive_msg(s2, TRUE)
        r2 == receive_msg(r1, TRUE)
        v  == is_valid_response(r2, r1.got)
    IN  IF v.valid THEN Return(v, r2.got)
        ELSE Raise(v, "OpenLISAException", r2.got)

\* ClientProtocol.get_instruments_as_json_string
get_instruments_as_json_string(io) ==
    LET s1 == send_msg(io, Str(COMMAND_GET_INSTRUMENTS), TRUE)
        r1 == receive_msg(s1, TRUE)
    IN  Return(r1, r1.got)

\* ClientProtocol.get_instrument_as_json_string
get_instrument_as_json_string(io, id) ==
    LET s1 == send_msg(io, Str(COMMAND_GET_INSTRUMENT), TRUE)
        s2 == send_msg(s1, py_str(id), TRUE)
        r1 == receive_msg(s2, TRUE)
        r2 == receive_msg(r1, TRUE)
        v  == is_valid_response(r2, r1.got)
    IN  IF v.valid THEN Return(v, r2.got)
        ELSE Raise(v, "OpenLISAException", r2.got)

\* ClientProtocol.create_instrument
create_instrument(io, new_instrument) ==
    LET j == Called(get_instrument_as_json_string(io, new_instrument))
        d == json_loads(j.got.s)
    IN  IF ~Running(j) THEN j
        ELSE IF d.type = "JSONDecodeError"
          THEN Raise(j, "JSONDecodeError",
                     Str("Expecting value: line 1 column 1 (char 0)"))
        ELSE Return(j, d)

\* ClientProtocol.get_instrument_commands_as_json_string
get_instrument_commands_as_json_string(io, id) ==
    LET s1 == send_msg(io, Str(COMMAND_GET_INSTRUMENT_COMMANDS), TRUE)
        s2 == send_msg(s1, py_str(id), TRUE)
        r1 == receive_msg(s2, TRUE)
        r2 == receive_msg(r1, TRUE)
        v  == is_valid_response(r2, r1.got)
    IN  IF v.valid THEN Return(v, r2.got)
        ELSE Raise(v, "OpenLISAException", r2.got)


\* ClientProtocol.update_instrument
update_instrument(io, id, updated_instrument) ==
    LET j == Called(update_instrument_as_json_string(io, py_str(id),
                                                    updated_instrument))
        d == json_loads(j.got.s)
    IN  IF ~Running(j) THEN j
        ELSE IF d.type = "JSONDecodeError"
          THEN Raise(j, "JSONDecodeError",
                     Str("Expecting value: line 1 column 1 (char 0)"))
        ELSE Return(j, d)

\* ClientProtocol.delete_instrument
delete_instrument(io, id) ==
    LET j == Called(delete_instrument_as_json_string(io, py_str(id)))
        d == json_loads(j.got.s)
    IN  IF ~Running(j) THEN j
        ELSE IF d.type = "JSONDecodeError"
          THEN Raise(j, "JSONDecodeError",
                     Str("Expecting value: line 1 column 1 (char 0)"))
        ELSE Return(j, d)

\* ClientProtocol.get_instruments
get_instruments(io) ==
    LET j == Called(get_instruments_as_json_string(io))
        d == json_loads(j.got.s)
    IN  IF ~Running(j) THEN j
        ELSE IF d.type = "JSONDecodeError"
          THEN Raise(j, "JSONDecodeError",
                     Str("Expecting value: line 1 column 1 (char 0)"))
        ELSE Return(j, d)

\* ClientProtocol.get_instrument
get_instrument(io, id) ==
    LET j == Called(get_instrument_as_json_string(io, py_str(id)))
        d == json_loads(j.got.s)
    IN  IF ~Running(j) THEN j
        ELSE IF d.type = "JSONDecodeError"
          THEN Raise(j, "JSONDecodeError",
                     Str("Expecting value: line 1 column 1 (char 0)"))
        ELSE Return(j, d)

\* ClientProtocol.get_instrument_commands
get_instrument_commands(io, id) ==
    LET j == Called(get_instrument_commands_as_json_string(io, id))
        d == json_loads(j.got.s)
    IN  IF ~Running(j) THEN j
        ELSE IF d.type = "JSONDecodeError"
          THEN Raise(j, "JSONDecodeError",
                     Str("Expecting value: line 1 column 1 (char 0)"))
        ELSE Return(j, d)

\* validate_command that reads a payload after the tag whatever the tag is
validate_command_reads_payload(io, id, command) ==
    LET s1 == send_msg(io, Str(COMMAND_VALIDATE_COMMAND), TRUE)
        s2 == send_msg(s1, py_str(id), TRUE)
        s3 == send_msg(s2, command, TRUE)
        r1 == receive_msg(s3, TRUE)
        r2 == receive_msg(r1, TRUE)
        v  == is_valid_response(r2, r1.got)
    IN  IF Running(v) /\ ~v.valid
          THEN Raise(v, "InvalidCommandException",
                     Str("command '" \o py_str(command).s
                         \o "' is not valid: " \o py_str(r2.got).s))
        ELSE Return(v, None)

\* validate_command that reports the status tag in place of the detail
validate_command_reports_tag(io, id, command) ==
    LET s1 == send_msg(io, Str(COMMAND_VALIDATE_COMMAND), TRUE)
        s2 == send_msg(s1, py_str(id), TRUE)
        s3 == send_msg(s2, command, TRUE)
        r1 == receive_msg(s3, TRUE)
        v  == is_valid_response(r1, r1.got)
    IN  IF Running(v) /\ ~v.valid
          THEN LET r2 == receive_msg(v, TRUE)
               IN  Raise(r2, "InvalidCommandException",
                         Str("command '" \o py_str(command).s
                             \o "' is not valid: " \o py_str(r1.got).s))
        ELSE Return(v, None)

\* ClientProtocol.validate_command
validate_command(io, id, command) ==
    LET s1 == send_msg(io, Str(COMMAND_VALIDATE_COMMAND), TRUE)
        s2 == send_msg(s1, py_str(id), TRUE)
        s3 == send_msg(s2, command, TRUE)
        r1 == receive_msg(s3, TRUE)
        v  == is_valid_response(r1, r1.got)
    IN  IF Running(v) /\ ~v.valid
          THEN LET r2 == receive_msg(v, TRUE)
               IN  Raise(r2, "InvalidCommandException",
                         Str("command '" \o py_str(command).s
                             \o "' is not valid: " \o py_str(r2.got).s))
        ELSE Return(v, None)

\* ClientProtocol.send_command_and_result_as_json_string
send_command_and_result_as_json_string(io, id, command) ==
    LET s1 == send_msg(io, Str(COMMAND_SEND_COMMAND), TRUE)
        s2 == send_msg(s1, py_str(id), TRUE)
        s3 == send_msg(s2, command, TRUE)
        r1 == receive_msg(s3, TRUE)
        v  == is_valid_response(r1, r1.got)
    IN  IF v.valid
          THEN LET r2 == receive_msg(v, TRUE)
               IN  Return(r2, r2.got)
        ELSE LET r2 == receive_msg(v, TRUE)
             IN  Raise(r2, "InvalidCommandException",
                       Str("command '" \o py_str(command).s
                           \o "' for instrument " \o py_str(id).s
                           \o " is not valid: " \o py_str(r2.got).s))

\* ClientProtocol.send_command
send_command(io, id, command) ==
    LET j == Called(send_command_and_result_as_json_string(io, py_str(id),
                                                            command))
        d == json_loads(j.got.s)
    IN  IF ~Running(j) THEN j
        ELSE IF d.type = "JSONDecodeError"
          THEN Raise(j, "JSONDecodeError",
                     Str("Expecting value: line 1 column 1 (char 0)"))
        ELSE IF d.type = "list"
          THEN Raise(j, "TypeError",
                     Str("list indices must be integers or slices, not str"))
        ELSE IF d.type = "int"
          THEN Raise(j, "TypeError", Str("'int' object is not subscriptable"))
        ELSE IF "rtype" \notin DOMAIN d THEN Raise(j, "KeyError", Str("type"))
        ELSE IF d.rtype = "BYTES"
          THEN LET b == b64decode(d.value.s)
               IN  IF b.type = "binascii.Error"
                     THEN Raise(j, "binascii.Error", d.value)
                   ELSE Return(j, [d EXCEPT !.value = b])
        ELSE Return(j, d)

\* send_file that closes the transport before raising
send_file_closes_on_error(io, file_bytes, file_target_name) ==
    LET s1 == send_msg(io, Str(COMMAND_SEND_FILE), TRUE)
        s2 == send_msg(s1, file_target_name, TRUE)
        s3 == send_msg(s2, file_bytes, FALSE)
        r1 == receive_msg(s3, TRUE)
        v  == is_valid_response(r1, r1.got)
    IN  IF Running(v) /\ ~v.valid
          THEN LET r2 == receive_msg(v, TRUE)
               IN  Raise(mp_disconnect(r2), "InvalidPathException", r2.got)
        ELSE Return(v, r1.got)

\* send_file that sends the file bytes before the target name
send_file_bytes_before_name(io, file_bytes, file_target_name) ==
    LET s1 == send_msg(io, Str(COMMAND_SEND_FILE), TRUE)
        s2 == send_msg(s1, file_bytes, FALSE)
        s3 == send_msg(s2, file_target_name, TRUE)
        r1 == receive_msg(s3, TRUE)
        v  == is_valid_response(r1, r1.got)
    IN  IF Running(v) /\ ~v.valid
          THEN LET r2 == receive_msg(v, TRUE)
               IN  Raise(r2, "InvalidPathException", r2.got)
        ELSE Return(v, r1.got)

\* ClientProtocol.send_file
send_file(io, file_bytes, file_target_name) ==
    LET s1 == send_msg(io, Str(COMMAND_SEND_FILE), TRUE)
        s2 == send_msg(s1, file_target_name, TRUE)
        s3 == send_msg(s2, file_bytes, FALSE)
        r1 == receive_msg(s3, TRUE)
        v  == is_valid_response(r1, r1.got)
    IN  IF Running(v) /\ ~v.valid
          THEN LET r2 == receive_msg(v, TRUE)
               IN  Raise(r2, "InvalidPathException", r2.got)
        ELSE Return(v, r1.got)

\* get_file that receives the payload as a text message
get_file_decodes_payload(io, remote_file_name) ==
    LET s1 == send_msg(io, Str(COMMAND_GET_FILE), TRUE)
        s2 == send_msg(s1, remote_file_name, TRUE)
        r1 == receive_msg(s2, TRUE)
        v  == is_valid_response(r1, py_str(r1.got))
    IN  IF Running(v) /\ ~v.valid
          THEN LET r2 == receive_msg(v, TRUE)
               IN  Raise(r2, "OpenLISAException", r2.got)
        ELSE LET r2 == receive_msg(v, TRUE)
             IN  Return(r2, r2.got)

\* ClientProtocol.get_file
get_file(io, remote_file_name) ==
    LET s1 == send_msg(io, Str(COMMAND_GET_FILE), TRUE)
        s2 == send_msg(s1, remote_file_name, TRUE)
        r1 == receive_msg(s2, TRUE)
        v  == is_valid_response(r1, py_str(r1.got))
    IN  IF Running(v) /\ ~v.valid
          THEN LET r2 == receive_msg(v, TRUE)
               IN  Raise(r2, "OpenLISAException", r2.got)
        ELSE LET r2 == receive_msg(v, FALSE)
             IN  Return(r2, r2.got)

\* execute_bash_command that reads stderr whatever capture_stderr is
execute_bash_reads_stderr(io, command, capture_stdout, capture_stderr) ==
    LET s1 == send_msg(io, Str(COMMAND_EXECUTE_BASH), TRUE)
        s2 == send_msg(s1, command, TRUE)
        s3 == send_msg(s2, py_str(capture_stdout), TRUE)
        s4 == send_msg(s3, py_str(capture_stderr), TRUE)
        r1 == receive_msg(s4, TRUE)
        r2 == IF py_truthy(capture_stdout) THEN receive_msg(r1, TRUE) ELSE r1
        r3 == receive_msg(r2, TRUE)
        status_code == py_str(r1.got)
        stdout == IF py_truthy(capture_stdout) THEN py_str(r2.got) ELSE None
        stderr == py_str(r3.got)
    IN  Return(r3, Tuple(<<status_code, stdout, stderr>>))

\* ClientProtocol.execute_bash_command
execute_bash_command(io, command, capture_stdout, capture_stderr) ==
    LET s1 == send_msg(io, Str(COMMAND_EXECUTE_BASH), TRUE)
        s2 == send_msg(s1, command, TRUE)
        s3 == send_msg(s2, py_str(capture_stdout), TRUE)
        s4 == send_msg(s3, py_str(capture_stderr), TRUE)
        r1 == receive_msg(s4, TRUE)
        r2 == IF py_truthy(capture_stdout) THEN receive_msg(r1, TRUE) ELSE r1
        r3 == IF py_truthy(capture_stderr) THEN receive_msg(r2, TRUE) ELSE r2
        status_code == py_str(r1.got)
        stdout == IF py_truthy(capture_stdout) THEN py_str(r2.got) ELSE None
        stderr == IF py_truthy(capture_stderr) THEN py_str(r3.got) ELSE None
    IN  Return(r3, Tuple(<<status_code, stdout, stderr>>))

\* ClientProtocol.reset_databases
reset_databases(io) ==
    LET s1 == send_msg(io, Str(COMMAND_RESET_DATABASES), TRUE)
        r1 == receive_msg(s1, TRUE)
    IN  Return(r1, r1.got)


---------------------------------------------------------------------------
(* The server: what it puts on the channel once it has read an invocation *)

ERROR_DETAIL == "unknown command"
STATUS_CODE  == "0"
STDOUT_TEXT  == "out"
STDERR_TEXT  == "err"

\* texts that are not a status tag
BadTags == {"ok", ""}

FileContents == {BytesOf("hello"), RawBytes(<<255, 0>>)}

\* the wire messages of the send calls of a log, in order
RECURSIVE Sent(_)
Sent(l) ==
    IF l = <<>> THEN <<>>
    ELSE IF Head(l).ev = "send" THEN <<WireOf(Head(l))>> \o Sent(Tail(l))
    ELSE Sent(Tail(l))

Txt(s) == BytesOf(s)

\* the success payloads the command table declares for a command name
SuccessPayloads(name) ==
    CASE name \in {COMMAND_GET_INSTRUMENTS, COMMAND_GET_INSTRUMENT_COMMANDS}
            -> {<<Txt(JSON_ARRAY)>>}
      [] name \in {COMMAND_GET_INSTRUMENT, COMMAND_CREATE_INSTRUMENT,
                   COMMAND_UPDATE_INSTRUMENT, COMMAND_DELETE_INSTRUMENT}
            -> {<<Txt(JSON_OBJECT)>>}
      [] name = COMMAND_SEND_COMMAND
            -> {<<Txt(JSON_BYTES)>>, <<Txt(JSON_RAW)>>, <<Txt(JSON_STRING)>>}
      [] name = COMMAND_GET_FILE
            -> {<<b>> : b \in FileContents}
      [] OTHER -> {<<>>}

\* the Responses of the command table to the invocation `sent`
ConformingReplies(sent) ==
    IF sent = <<>> THEN {<<>>}
    ELSE LET name == sent[1].utf8
         IN  CASE name = COMMAND_DISCONNECT -> {<<>>}
               [] name = COMMAND_RESET_DATABASES -> {<<Txt(SUCCESS_RESPONSE)>>}
               [] name = COMMAND_EXECUTE_BASH ->
                    {<<Txt(STATUS_CODE)>>
                     \o (IF sent[3] = Txt("True") THEN <<Txt(STDOUT_TEXT)>>
                                                  ELSE <<>>)
                     \o (IF sent[4] = Txt("True") THEN <<Txt(STDERR_TEXT)>>
                                                  ELSE <<>>)}
               [] OTHER ->
                    {<<Txt(SUCCESS_RESPONSE)>> \o q : q \in SuccessPayloads(name)}
                    \cup {<<Txt(ERROR_RESPONSE), Txt(ERROR_DETAIL)>>}

\* replies whose first message is not a status tag, with or without a
\* message after it
ViolatingReplies(sent) ==
    IF sent = <<>> \/ sent[1].utf8 \in {COMMAND_DISCONNECT, COMMAND_EXECUTE_BASH}
    THEN {}
    ELSE {<<Txt(t)>> : t \in BadTags}
         \cup {<<Txt(t), Txt(ERROR_DETAIL)>> : t \in BadTags}

ServerReplies(sent) == ConformingReplies(sent) \cup ViolatingReplies(sent)

---------------------------------------------------------------------------
(* Arguments the caller passes *)

Ids         == {IntV(3), Str("12")}
Commands    == {Str("MEAS:VOLT?")}
Instruments == {Dict(<< <<"brand", "RIGOL">>, <<"model", "DS1">> >>)}
FileNames   == {Str("data.bin")}
BashLines   == {Str("ls")}
Flags       == {Bool(TRUE), Bool(FALSE), IntV(1), Str("False")}

---------------------------------------------------------------------------
(* The state machine: one action per ClientProtocol method *)

NoOutcome == [status |-> "none", exc |-> "", value |-> None]

\* connect_through_RS232 as it starts: nothing probed, `connection = None`
NewDiscovery ==
    [trace |-> <<>>, still_open |-> {}, connection |-> None, found |-> FALSE,
     status |-> "run", exc |-> "", value |-> None, client_protocol |-> None]

\* connect_through_TCP was not called
NoTCP ==
    [called |-> FALSE, host |-> None, port |-> None, net |-> "",
     trace |-> <<>>, status |-> "none", exc |-> "", value |-> None,
     before |-> None, client_protocol |-> None]

\* connect_through_RS232 was not called
NoDiscovery == [called |-> FALSE, port |-> None, env |-> None, d |-> NewDiscovery]

Init ==
    /\ open = TRUE
    /\ chan = <<>>
    /\ conforming = TRUE
    /\ op = ""
    /\ args = <<>>
    /\ pre = <<>>
    /\ reply = <<>>
    /\ log = <<>>
    /\ outcome = NoOutcome
    /\ rs = NoDiscovery
    /\ link = Unbroken
    /\ tcp = NoTCP

\* The caller runs method M (its synchronous call): M sends its invocation,
\* the server answers it, and M reads what it reads.  A caller blocked in a
\* receive never calls again.  Results(M) are the executions of M that the
\* server's possible answers give, each with the answer it got.
CanCall == outcome.status # "blocked" /\ Len(chan) <= MaxUnread

\* When the connection breaks while M waits for the reply (it has carried
\* its last message), what arrived before is any part of the reply, and the
\* read that finds nothing ends with the Transport Error.
Arrived(replies) ==
    UNION {{SubSeq(r, 1, n) : n \in 0..Len(r)} : r \in replies}

Results(M(_)) ==
    LET sent == M(Start(chan, open))
        full == M([Start(chan, open) EXCEPT !.link = Unbroken])
        cut == Len(Sent(sent.log)) < Len(Sent(full.log))
        whole == ServerReplies(Sent(full.log))
        replies == IF cut THEN {<<>>}
                   ELSE IF sent.link = 0 THEN Arrived(whole)
                   ELSE whole
    IN  {[r |-> r, res |-> M(Start(chan \o r, open))] : r \in replies}

\* the state after method `name`, called with `a`, ran as x
After(name, a, x) ==
    /\ op' = name
    /\ args' = a
    /\ pre' = chan
    /\ reply' = x.r
    /\ log' = x.res.log
    /\ outcome' = [status |-> x.res.status, exc |-> x.res.exc,
                   value |-> x.res.value]
    /\ chan' = x.res.chan
    /\ open' = x.res.open
    /\ conforming' =
          (conforming /\ (x.res.exc = "TransportError"
                          \/ x.r \in ConformingReplies(Sent(x.res.log))))
    /\ rs' = rs
    /\ link' = x.res.link
    /\ tcp' = tcp

Disconnect ==
    /\ CanCall
    /\ \E x \in Results(LAMBDA io : disconnect(io)) :
          After("disconnect", <<>>, x)

CreateInstrumentAsJsonString ==
    \E i \in Instruments :
        /\ CanCall
        /\ \E x \in Results(LAMBDA io : create_instrument_as_json_string(io, i)) :
              After("create_instrument_as_json_string", <<i>>, x)

CreateInstrument ==
    \E i \in Instruments :
        /\ CanCall
        /\ \E x \in Results(LAMBDA io : create_instrument(io, i)) :
              After("create_instrument", <<i>>, x)

UpdateInstrumentAsJsonString ==
    \E id \in Ids, i \in Instruments :
        /\ CanCall
        /\ \E x \in Results(LAMBDA io : update_instrument_as_json_string(io, id, i)) :
              After("update_instrument_as_json_string", <<id, i>>, x)

DeleteInstrumentAsJsonString ==
    \E id \in Ids :
        /\ CanCall
        /\ \E x \in Results(LAMBDA io : delete_instrument_as_json_string(io, id)) :
              After("delete_instrument_as_json_string", <<id>>, x)

GetInstrumentsAsJsonString ==
    /\ CanCall
    /\ \E x \in Results(LAMBDA io : get_instruments_as_json_string(io)) :
          After("get_instruments_as_json_string", <<>>, x)

GetInstrumentAsJsonString ==
    \E id \in Ids :
        /\ CanCall
        /\ \E x \in Results(LAMBDA io : get_instrument_as_json_string(io, id)) :
              After("get_instrument_as_json_string", <<id>>, x)

GetInstrumentCommandsAsJsonString ==
    \E id \in Ids :
        /\ CanCall
        /\ \E x \in Results(LAMBDA io : get_instrument_commands_as_json_string(io, id)) :
              After("get_instrument_commands_as_json_string", <<id>>, x)

UpdateInstrument ==
    \E id \in Ids, i \in Instruments :
        /\ CanCall
        /\ \E x \in Results(LAMBDA io : update_instrument(io, id, i)) :
              After("update_instrument", <<id, i>>, x)

DeleteInstrument ==
    \E id \in Ids :
        /\ CanCall
        /\ \E x \in Results(LAMBDA io : delete_instrument(io, id)) :
              After("delete_instrument", <<id>>, x)

GetInstruments ==
    /\ CanCall
    /\ \E x \in Results(LAMBDA io : get_instruments(io)) :
          After("get_instruments", <<>>, x)

GetInstrument ==
    \E id \in Ids :
        /\ CanCall
        /\ \E x \in Results(LAMBDA io : get_instrument(io, id)) :
              After("get_instrument", <<id>>, x)

GetInstrumentCommands ==
    \E id \in Ids :
        /\ CanCall
        /\ \E x \in Results(LAMBDA io : get_instrument_commands(io, id)) :
              After("get_instrument_commands", <<id>>, x)

ValidateCommand ==
    \E id \in Ids, c \in Commands :
        /\ CanCall
        /\ \E x \in Results(LAMBDA io : validate_command(io, id, c)) :
              After("validate_command", <<id, c>>, x)

SendCommandAndResultAsJsonString ==
    \E id \in Ids, c \in Commands :
        /\ CanCall
        /\ \E x \in Results(LAMBDA io : send_command_and_result_as_json_string(io, id, c)) :
              After("send_command_and_result_as_json_string", <<id, c>>, x)

SendCommand ==
    \E id \in Ids, c \in Commands :
        /\ CanCall
        /\ \E x \in Results(LAMBDA io : send_command(io, id, c)) :
              After("send_command", <<id, c>>, x)

SendFile ==
    \E b \in FileContents, n \in FileNames :
        /\ CanCall
        /\ \E x \in Results(LAMBDA io : send_file(io, b, n)) :
              After("send_file", <<b, n>>, x)

GetFile ==
    \E n \in FileNames :
        /\ CanCall
        /\ \E x \in Results(LAMBDA io : get_file(io, n)) :
              After("get_file", <<n>>, x)

ExecuteBashCommand ==
    \E c \in BashLines, o \in Flags, e \in Flags :
        /\ CanCall
        /\ \E x \in Results(LAMBDA io : execute_bash_command(io, c, o, e)) :
              After("execute_bash_command", <<c, o, e>>, x)

ResetDatabases ==
    /\ CanCall
    /\ \E x \in Results(LAMBDA io : reset_databases(io)) :
          After("reset_databases", <<>>, x)

Next ==
    \/ Disconnect
    \/ CreateInstrumentAsJsonString
    \/ CreateInstrument
    \/ UpdateInstrumentAsJsonString
    \/ DeleteInstrumentAsJsonString
    \/ GetInstrumentsAsJsonString
    \/ GetInstrumentAsJsonString
    \/ GetInstrumentCommandsAsJsonString
    \/ UpdateInstrument
    \/ DeleteInstrument
    \/ GetInstruments
    \/ GetInstrument
    \/ GetInstrumentCommands
    \/ ValidateCommand
    \/ SendCommandAndResultAsJsonString
    \/ SendCommand
    \/ SendFile
    \/ GetFile
    \/ ExecuteBashCommand
    \/ ResetDatabases

Spec == Init /\ [][Next]_vars

---------------------------------------------------------------------------
(* The connection may break under an open transport *)

\* The peer resets the connection or the pipe breaks.  Between calls the
\* break comes after some more messages, possibly in the middle of a call:
\* the write of the next message on the transport fails with a Transport
\* Error.  Under a call that waits in receive_msg the break ends the wait:
\* the read raises the Transport Error, which leaves the method (no method
\* of ClientProtocol catches anything), and the transport is left as it is.
LinkBreaks ==
    \/ /\ outcome.status # "blocked"
       /\ link = Unbroken
       /\ link' \in 0..MaxCarried
       /\ UNCHANGED <<open, chan, conforming, op, args, pre, reply, log,
                      outcome, rs, tcp>>
    \/ /\ outcome.status = "blocked"
       /\ link' = 0
       /\ log' = SubSeq(log, 1, Len(log) - 1)
       /\ outcome' = [status |-> "raise", exc |-> "TransportError",
                      value |-> None]
       /\ UNCHANGED <<open, chan, conforming, op, args, pre, reply, rs, tcp>>

NextTransportErrors == Next \/ LinkBreaks

SpecTransportErrors == Init /\ [][NextTransportErrors]_vars

---------------------------------------------------------------------------
(* SDK.connect_through_RS232: port discovery and handshake *)

DEFAULT_RS232_BAUDRATE             == 921600
TIMEOUT_TO_WAIT_HANDSHAKE_RESPONSE == 3
RS232_HANDSHAKE_CLIENT_REQUEST     == "OPEN"
RS232_HANDSHAKE_SERVER_RESPONSE    == "LISA"
\* 4_294_967_295, kept as its numeral: it is only handed to set_buffer_size
MAX_UNSIGNED_INT                   == "4294967295"

\* the characters of the greetings and their code points
Chr(c) ==
    CASE c = 10 -> "\n"
      [] c = 65 -> "A"
      [] c = 69 -> "E"
      [] c = 73 -> "I"
      [] c = 76 -> "L"
      [] c = 78 -> "N"
      [] c = 79 -> "O"
      [] c = 80 -> "P"
      [] c = 83 -> "S"

\* s.encode() of the greetings
str_encode(s) ==
    CASE s = "OPEN" -> <<79, 80, 69, 78>>
      [] s = "LISA" -> <<76, 73, 83, 65>>

\* b.decode() succeeds: no byte of b is outside ASCII (the only non-ASCII
\* byte a device sends here is 255, which no UTF-8 text contains)
decodable(b) == \A i \in 1..Len(b) : b[i] < 128

\* str(b.decode()) of decodable bytes
RECURSIVE bytes_decode(_)
bytes_decode(b) ==
    IF b = <<>> THEN "" ELSE Chr(Head(b)) \o bytes_decode(Tail(b))

---------------------------------------------------------------------------
(* The serial devices: what pyserial does on each of them *)

DeviceName(i) == "COM" \o NatText(i)
DeviceNames   == {DeviceName(i) : i \in 1..MaxPorts}

\* what a device that opens and takes the greeting has to be read
DeviceReplies ==
    {<<>>,                       \* silent: the read times out
     <<76, 73, 83, 65>>,         \* LISA
     <<76, 73, 83, 65, 10>>,     \* LISA and more
     <<76, 73, 83>>,             \* short
     <<78, 79, 80, 69>>,         \* wrong
     <<255, 73, 83, 65>>}        \* not text

\* a device: the pyserial call that raises SerialException on it ("" when
\* none does) and the bytes it answers the greeting with
Behaviours ==
    {[fails |-> f, reply |-> <<>>] : f \in {"open", "set_buffer_size", "write"}}
    \cup {[fails |-> "", reply |-> r] : r \in DeviceReplies}

\* serial.tools.list_ports.comports(): the devices the OS reports, in order
Enumerations == {[i \in 1..n |-> DeviceName(i)] : n \in 0..MaxPorts}

\* Serial.read(size): at most size bytes of what the device answered
serial_read(dev, size) ==
    SubSeq(dev.reply, 1, IF Len(dev.reply) < size THEN Len(dev.reply) ELSE size)

\* the Serial object on an open port
SerialOn(port) == [type |-> "Serial", port |-> port, is_open |-> TRUE]

SerialEv(port, baudrate, timeout) ==
    [ev |-> "Serial", port |-> port, baudrate |-> baudrate, timeout |-> timeout]
OpenEv(port)            == [ev |-> "open", port |-> port]
BufferEv(port, rx, tx)  == [ev |-> "set_buffer_size", port |-> port,
                            rx_size |-> rx, tx_size |-> tx]
WriteEv(port, data)     == [ev |-> "write", port |-> port, data |-> data]
ReadEv(port, size)      == [ev |-> "read", port |-> port, size |-> size]
FinalizeEv(port)        == [ev |-> "close", port |-> port]

\* a pyserial call was made
Did(d, e) == [d EXCEPT !.trace = Append(@, e)]

\* `connection = None`: the Serial object that was bound, if any, is
\* unreachable; where objects are finalized at once (prompt) the finalizer
\* closes its port, elsewhere the port stays open
forget(d, prompt) ==
    LET c == d.connection
    IN  IF c = None THEN d
        ELSE IF prompt
          THEN [d EXCEPT !.connection = None,
                         !.still_open = @ \ {c.port},
                         !.trace = Append(@, FinalizeEv(c.port))]
        ELSE [d EXCEPT !.connection = None]

\* a loop turn that writes the greeting before it configures the buffers
try_port_greets_first(d, port, baudrate, devices, prompt) ==
    LET dev == devices[port]
        size == Len(RS232_HANDSHAKE_SERVER_RESPONSE)
        c0 == Did(d, SerialEv(port, baudrate,
                              TIMEOUT_TO_WAIT_HANDSHAKE_RESPONSE))
        c1 == [c0 EXCEPT !.connection = SerialOn(port),
                         !.still_open = @ \cup {port}]
        c3 == Did(c1, WriteEv(port,
                              str_encode(RS232_HANDSHAKE_CLIENT_REQUEST)))
        c4 == Did(c3, BufferEv(port, MAX_UNSIGNED_INT, MAX_UNSIGNED_INT))
        c5 == Did(c4, ReadEv(port, size))
        response == serial_read(dev, size)
    IN  CASE dev.fails = "open"            -> forget(c0, prompt)
          [] dev.fails = "write"           -> forget(c3, prompt)
          [] dev.fails = "set_buffer_size" -> forget(c4, prompt)
          [] OTHER ->
               IF Len(response) > 0 /\ ~decodable(response)
                 THEN [c5 EXCEPT !.status = "raise",
                                 !.exc = "UnicodeDecodeError"]
               ELSE IF Len(response) > 0
                       /\ bytes_decode(response)
                            = RS232_HANDSHAKE_SERVER_RESPONSE
                 THEN [c5 EXCEPT !.found = TRUE]
               ELSE forget(c5, prompt)

\* one turn of `for port in ports_to_try`
try_port(d, port, baudrate, devices, prompt) ==
    LET dev == devices[port]
        size == Len(RS232_HANDSHAKE_SERVER_RESPONSE)
        c0 == Did(d, SerialEv(port, baudrate,
                              TIMEOUT_TO_WAIT_HANDSHAKE_RESPONSE))
        c1 == [c0 EXCEPT !.connection = SerialOn(port),
                         !.still_open = @ \cup {port}]
        c2 == IF ~c1.connection.is_open THEN Did(c1, OpenEv(port)) ELSE c1
        c3 == Did(c2, BufferEv(port, MAX_UNSIGNED_INT, MAX_UNSIGNED_INT))
        c4 == Did(c3, WriteEv(port,
                              str_encode(RS232_HANDSHAKE_CLIENT_REQUEST)))
        c5 == Did(c4, ReadEv(port, size))
        response == serial_read(dev, size)
    IN  CASE dev.fails = "open"            -> forget(c0, prompt)
          [] dev.fails = "set_buffer_size" -> forget(c3, prompt)
          [] dev.fails = "write"           -> forget(c4, prompt)
          [] OTHER ->
               IF Len(response) > 0 /\ ~decodable(response)
                 THEN [c5 EXCEPT !.status = "raise",
                                 !.exc = "UnicodeDecodeError"]
               ELSE IF Len(response) > 0
                       /\ bytes_decode(response)
                            = RS232_HANDSHAKE_SERVER_RESPONSE
                 THEN [c5 EXCEPT !.found = TRUE]
               ELSE forget(c5, prompt)

\* the loop `for port in ports_to_try`, left by break or by an exception
RECURSIVE try_ports(_, _, _, _, _)
try_ports(d, ports_to_try, baudrate, devices, prompt) ==
    IF ports_to_try = <<>> \/ d.found \/ d.status # "run" THEN d
    ELSE try_ports(try_port(d, Head(ports_to_try), baudrate, devices, prompt),
                   Tail(ports_to_try), baudrate, devices, prompt)

\* connect_through_RS232 that probes the enumerated devices whatever `port`
connect_through_RS232_any_port(baudrate, port, comports, devices, prompt) ==
    LET detected_port_devices == comports
        ports_to_try == detected_port_devices
        d == try_ports(NewDiscovery, ports_to_try, baudrate, devices, prompt)
    IN  IF d.status # "run" THEN d
        ELSE IF d.connection = None
          THEN [d EXCEPT !.status = "raise",
                         !.exc = "CouldNotConnectToServerException",
                         !.value = Str("could not detect Open LISA server listening through RS232")]
        ELSE [d EXCEPT !.status = "return", !.client_protocol = d.connection]

\* SDK.connect_through_RS232
connect_through_RS232(baudrate, port, comports, devices, prompt) ==
    LET detected_port_devices == comports
        ports_to_try == IF ~py_truthy(port) THEN detected_port_devices
                        ELSE <<port.s>>
        d == try_ports(NewDiscovery, ports_to_try, baudrate, devices, prompt)
    IN  IF d.status # "run" THEN d
        ELSE IF d.connection = None
          THEN [d EXCEPT !.status = "raise",
                         !.exc = "CouldNotConnectToServerException",
                         !.value = Str("could not detect Open LISA server listening through RS232")]
        ELSE [d EXCEPT !.status = "return", !.client_protocol = d.connection]

\* the port argument: left out, empty, or a device name
Ports == {None, Str("")} \cup {Str(p) : p \in DeviceNames}

\* a fresh SDK: no client protocol, no transport
InitRS232 ==
    /\ open = FALSE
    /\ chan = <<>>
    /\ conforming = TRUE
    /\ op = ""
    /\ args = <<>>
    /\ pre = <<>>
    /\ reply = <<>>
    /\ log = <<>>
    /\ outcome = NoOutcome
    /\ rs = NoDiscovery
    /\ link = Unbroken
    /\ tcp = NoTCP

ConnectThroughRS232 ==
    /\ ~rs.called
    /\ \E port \in Ports, comports \in Enumerations,
          devices \in [DeviceNames -> Behaviours], prompt \in BOOLEAN :
          LET d == connect_through_RS232(DEFAULT_RS232_BAUDRATE, port,
                                         comports, devices, prompt)
          IN  /\ rs' = [called |-> TRUE, port |-> port,
                        env |-> [comports |-> comports, devices |-> devices,
                                 prompt |-> prompt],
                        d |-> d]
              /\ open' = (d.status = "return")
    /\ UNCHANGED <<chan, conforming, op, args, pre, reply, log, outcome, link,
                   tcp>>

NextRS232 == ConnectThroughRS232

SpecRS232 == InitRS232 /\ [][NextRS232]_vars

---------------------------------------------------------------------------
(* SDK.connect_through_TCP *)

\* int(x): an int is itself, a decimal numeral is its number, any other
\* text raises ValueError, None raises TypeError
py_int(x) ==
    CASE x.type = "int" -> [exc |-> "", n |-> x.n]
      [] x.type = "str" ->
           IF \E n \in 0..MaxPortNumber : NatText(n) = x.s
             THEN [exc |-> "",
                   n |-> CHOOSE n \in 0..MaxPortNumber : NatText(n) = x.s]
           ELSE [exc |-> "ValueError", n |-> 0]
      [] x.type = "NoneType" -> [exc |-> "TypeError", n |-> 0]

\* what the network does with the connection attempt: socket.socket()
\* raises OSError, or sock.connect raises ConnectionRefusedError or
\* TimeoutError, or the socket connects
Networks == {"connected", "socket_fails", "refused", "timeout"}

SocketEv        == [ev |-> "socket"]
ConnectEv(h, n) == [ev |-> "connect", host |-> h, port |-> n]

\* ClientProtocol(MessageProtocolTCP(sock)) on a socket connected to (h, n)
ProtocolOnSocket(h, n) == [type |-> "ClientProtocol", host |-> h, port |-> n]

\* "could not connect with server at {} through TCP".format(server_address)
could_not_connect(h, n) ==
    Str("could not connect with server at ('" \o h \o "', " \o NatText(n)
        \o ") through TCP")

\* SDK.connect_through_TCP on an SDK whose _client_protocol is
\* `client_protocol` (None: the attribute is not set); in the handler
\* `server_address` is read, which is unbound when int(port) raised
connect_through_TCP(client_protocol, host, port, net) ==
    LET p  == py_int(port)
        t1 == <<SocketEv>>
        t2 == <<SocketEv, ConnectEv(host.s, p.n)>>
        failed(t) == [trace |-> t, status |-> "raise",
                      exc |-> "CouldNotConnectToServerException",
                      value |-> could_not_connect(host.s, p.n),
                      client_protocol |-> client_protocol]
    IN  IF p.exc # ""
          THEN [trace |-> <<>>, status |-> "raise",
                exc |-> "UnboundLocalError",
                value |-> Str("cannot access local variable 'server_address' where it is not associated with a value"),
                client_protocol |-> client_protocol]
        ELSE IF net = "socket_fails" THEN failed(t1)
        ELSE IF net # "connected" THEN failed(t2)
        ELSE [trace |-> t2, status |-> "return", exc |-> "", value |-> None,
              client_protocol |-> ProtocolOnSocket(host.s, p.n)]

Hosts    == {Str("localhost"), Str("10.0.0.7")}
TcpPorts == {IntV(80), Str("80"), Str("8"), Str("http"), None}

\* a fresh SDK: no client protocol, no transport
InitTCP ==
    /\ open = FALSE
    /\ chan = <<>>
    /\ conforming = TRUE
    /\ op = ""
    /\ args = <<>>
    /\ pre = <<>>
    /\ reply = <<>>
    /\ log = <<>>
    /\ outcome = NoOutcome
    /\ rs = NoDiscovery
    /\ link = Unbroken
    /\ tcp = NoTCP

\* connect_through_TCP may be called again on the same SDK; a protocol
\* installed before stays when the call fails, and its socket stays open
ConnectThroughTCP ==
    /\ \E host \in Hosts, port \in TcpPorts, net \in Networks :
          LET r == connect_through_TCP(tcp.client_protocol, host, port, net)
          IN  /\ tcp' = [called |-> TRUE, host |-> host, port |-> port,
                         net |-> net, trace |-> r.trace, status |-> r.status,
                         exc |-> r.exc, value |-> r.value,
                         before |-> tcp.client_protocol,
                         client_protocol |-> r.client_protocol]
              /\ open' = (open \/ r.status = "return")
    /\ UNCHANGED <<chan, conforming, op, args, pre, reply, log, outcome, rs,
                   link>>

NextTCP == ConnectThroughTCP

SpecTCP == InitTCP /\ [][NextTCP]_vars

---------------------------------------------------------------------------
(* Reading the last call *)

Sends  == SelectSeq(log, LAMBDA e : e.ev = "send")
Recvs  == SelectSeq(log, LAMBDA e : e.ev = "recv")
Checks == SelectSeq(log, LAMBDA e : e.ev = "check")

\* the method ran on an open transport
Ran(name) == op = name /\ outcome.exc # "ClosedChannelError"

Completed == outcome.status \in {"return", "raise"}

CommandErrors ==
    {"OpenLISAException", "InvalidCommandException", "InvalidPathException"}

RaisedCommandError ==
    outcome.status = "raise" /\ outcome.exc \in CommandErrors

\* the text a method passed to __is_valid_response was t
Classified(t) == Checks # <<>> /\ Checks[1].msg = Str(t)

\* every send call came before every receive call
SendsFirst ==
    \A i, j \in 1..Len(log) :
        (log[i].ev = "recv" /\ log[j].ev = "send") => j < i

---------------------------------------------------------------------------
(* Reading the discovery call *)

\* the candidates of the call: the explicit port, else the OS enumeration
Candidates ==
    IF rs.port \in {None, Str("")} THEN rs.env.comports ELSE <<rs.port.s>>

\* the device answers the greeting with LISA
Echoes(p) ==
    /\ rs.env.devices[p].fails = ""
    /\ Len(rs.env.devices[p].reply) >= 4
    /\ SubSeq(rs.env.devices[p].reply, 1, 4) = <<76, 73, 83, 65>>

Matches == {k \in 1..Len(Candidates) : Echoes(Candidates[k])}

\* the ports a Serial object was asked for, in order
RECURSIVE PortsOf(_)
PortsOf(t) ==
    IF t = <<>> THEN <<>> ELSE <<Head(t).port>> \o PortsOf(Tail(t))

Probed == PortsOf(SelectSeq(rs.d.trace, LAMBDA e : e.ev = "Serial"))

\* the pyserial calls made on the connection to port p
CallsOn(p) ==
    SelectSeq(rs.d.trace,
              LAMBDA e : e.port = p /\ e.ev \notin {"Serial", "close"})

DiscoveryError ==
    /\ rs.d.status = "raise"
    /\ rs.d.exc = "CouldNotConnectToServerException"

---------------------------------------------------------------------------
(* C1 .. C10 *)

\* C1: against a server that answers every invocation with the Response of
\* the command table, every completed operation has consumed its Response
\* in full: no message is left unread on the channel when the next
\* operation starts.
C1_ResponseFullyConsumed ==
    (conforming /\ Completed) => chan = <<>>

\* C2: GET_INSTRUMENTS sends only the command name; answered OK and a JSON
\* array it returns the array (not the status tag), answered ERROR and an
\* error string it raises an error carrying that string.
C2_GetInstrumentsResult ==
    (Ran("get_instruments_as_json_string") /\ pre = <<>> /\ conforming) =>
        /\ Sends = <<SendEv(Str("GET_INSTRUMENTS"), TRUE)>>
        /\ reply[1] = Txt("OK") =>
              /\ outcome.status = "return"
              /\ outcome.value = Str(reply[2].utf8)
        /\ reply[1] = Txt("ERROR") =>
              /\ outcome.status = "raise"
              /\ outcome.value = Str(reply[2].utf8)

\* C3: the status tag is classified by exact, case-sensitive comparison:
\* "OK" is never a command error or a protocol violation, "ERROR" is never
\* a success or a protocol violation, and every other text ends the
\* operation with the protocol violation (and only such a text does).
C3_StatusTagClassification ==
    /\ Classified("OK") =>
          ~RaisedCommandError /\ outcome.exc # "Exception"
    /\ Classified("ERROR") =>
          outcome.status # "return" /\ outcome.exc # "Exception"
    /\ (Checks # <<>> /\ ~Classified("OK") /\ ~Classified("ERROR")) =>
          /\ outcome.status = "raise"
          /\ outcome.exc = "Exception"
          /\ outcome.value = Str("unknown response type: '"
                                 \o Checks[1].msg.s \o "'")
    /\ outcome.exc = "Exception" =>
          Checks # <<>> /\ ~Classified("OK") /\ ~Classified("ERROR")

C3_Witness ==
    /\ Classified("ok")
    /\ outcome.status = "raise"
    /\ outcome.exc = "Exception"
    /\ outcome.value = Str("unknown response type: 'ok'")

\* C4: VALIDATE_COMMAND sends exactly VALIDATE_COMMAND, id, command, in that
\* order, then receives the status tag; on OK it returns without error and
\* without another receive, on ERROR it receives exactly one more message
\* and does not return.
C4_ValidateCommandExchange ==
    Ran("validate_command") =>
        /\ Len(log) >= 4
        /\ SubSeq(log, 1, 3) = <<SendEv(Str("VALIDATE_COMMAND"), TRUE),
                                 SendEv(IF args[1] = IntV(3) THEN Str("3")
                                        ELSE args[1], TRUE),
                                 SendEv(args[2], TRUE)>>
        /\ Len(Sends) = 3
        /\ log[4].ev = "recv"
        /\ log[4].msg = Str("OK") =>
              /\ Len(Recvs) = 1
              /\ outcome.status = "return"
              /\ outcome.value = None
        /\ log[4].msg = Str("ERROR") =>
              /\ Len(Recvs) = 2
              /\ outcome.status # "return"
              /\ Recvs[2].msg # None => RaisedCommandError

C4_Witness ==
    /\ Ran("validate_command")
    /\ args = <<IntV(3), Str("MEAS:VOLT?")>>
    /\ Recvs = <<RecvEv(Str("OK"), TRUE)>>
    /\ outcome.status = "return"

\* C5 as stated: the Command Error raised after ERROR, d carries a detail
\* equal to d, for every command that models a failure.
C5_ErrorDetailEqualsServerDetail ==
    RaisedCommandError => outcome.value = Recvs[2].msg

\* C5 amended: a Command Error is raised exactly when the tag read was ERROR
\* and a detail d followed; its message is d for the instrument operations
\* (OpenLISAException), SEND_FILE (InvalidPathException) and GET_FILE
\* (OpenLISAException), and for VALIDATE_COMMAND and SEND_COMMAND
\* (InvalidCommandException) it is d after a prefix naming the command (and
\* the instrument id).
C5_ErrorCarriesServerDetail ==
    /\ RaisedCommandError =>
          /\ Classified("ERROR")
          /\ Len(Recvs) = 2
          /\ LET d == Recvs[2].msg.s
                 id == IF args[1] = IntV(3) THEN "3" ELSE args[1].s
             IN  CASE op = "validate_command" ->
                        /\ outcome.exc = "InvalidCommandException"
                        /\ outcome.value =
                              Str("command '" \o args[2].s
                                  \o "' is not valid: " \o d)
                   [] op \in {"send_command",
                              "send_command_and_result_as_json_string"} ->
                        /\ outcome.exc = "InvalidCommandException"
                        /\ outcome.value =
                              Str("command '" \o args[2].s
                                  \o "' for instrument " \o id
                                  \o " is not valid: " \o d)
                   [] op = "send_file" ->
                        /\ outcome.exc = "InvalidPathException"
                        /\ outcome.value = Str(d)
                   [] OTHER ->
                        /\ outcome.exc = "OpenLISAException"
                        /\ outcome.value = Str(d)
    /\ (Classified("ERROR") /\ Len(Recvs) = 2 /\ IsStr(Recvs[2].msg)) =>
          RaisedCommandError

C5_Witness ==
    /\ Ran("validate_command")
    /\ Recvs = <<RecvEv(Str("ERROR"), TRUE),
                 RecvEv(Str("unknown command"), TRUE)>>
    /\ outcome.status = "raise"
    /\ outcome.exc = "InvalidCommandException"
    /\ outcome.value =
          Str("command 'MEAS:VOLT?' is not valid: unknown command")

\* C6: an operation that ends by raising a Command Error leaves the
\* transport open: it made no close call and the protocol stays connected,
\* so the caller can issue the next command.
C6_CommandErrorKeepsConnection ==
    RaisedCommandError =>
        /\ open
        /\ \A i \in 1..Len(log) : log[i].ev # "close"

C6_Witness ==
    /\ Ran("send_file")
    /\ outcome.status = "raise"
    /\ outcome.exc = "InvalidPathException"
    /\ open

\* C7: for SEND_COMMAND the Client Protocol hands back the JSON text
\* received after OK unmodified and never base64-decodes the value: what a
\* SEND_COMMAND method of ClientProtocol returns is the text of the second
\* message.  (SDK.send_command, the layer above, decodes nothing: it calls
\* ClientProtocol.send_command and gets the decoded bytes from it.)
C7_SendCommandHandsBackJsonText ==
    (op \in {"send_command", "send_command_and_result_as_json_string"}
     /\ outcome.status = "return") =>
        outcome.value = Recvs[2].msg

\* C8: EXECUTE_BASH sends EXECUTE_BASH, the command text, the stdout flag
\* and the stderr flag, in that order, then receives the status code, then
\* one stdout message iff capture_stdout is true, then one stderr message
\* iff capture_stderr is true; a stream that is not captured is returned as
\* None, and with both flags False only the status code is received.
C8_ExecuteBashExchange ==
    (Ran("execute_bash_command")
     /\ args[2].type = "bool" /\ args[3].type = "bool") =>
        LET out == args[2].b
            err == args[3].b
            n   == 1 + (IF out THEN 1 ELSE 0) + (IF err THEN 1 ELSE 0)
        IN  /\ Sends = <<SendEv(Str("EXECUTE_BASH"), TRUE),
                         SendEv(args[1], TRUE),
                         SendEv(Str(IF out THEN "True" ELSE "False"), TRUE),
                         SendEv(Str(IF err THEN "True" ELSE "False"), TRUE)>>
            /\ SendsFirst
            /\ Len(Recvs) <= n
            /\ Checks = <<>>
            /\ outcome.status = "return" => Len(Recvs) = n
            /\ (conforming /\ pre = <<>>) =>
                  outcome.status = "return" /\ chan = <<>>
            /\ outcome.status = "return" =>
                  outcome.value =
                     Tuple(<<Recvs[1].msg,
                             IF out THEN Recvs[2].msg ELSE None,
                             IF err THEN Recvs[n].msg ELSE None>>)

C8_Witness ==
    /\ Ran("execute_bash_command")
    /\ args = <<Str("ls"), Bool(TRUE), Bool(FALSE)>>
    /\ pre = <<>>
    /\ outcome.status = "return"
    /\ outcome.value = Tuple(<<Str("0"), Str("out"), None>>)
    /\ Len(Recvs) = 2

\* C9: SEND_FILE sends SEND_FILE, then the target name as a text message,
\* then the file bytes as a binary message that is not text-encoded; on OK
\* it receives nothing further, on ERROR it receives exactly one detail
\* message and raises the invalid-path error.
C9_SendFileExchange ==
    Ran("send_file") =>
        /\ Sends = <<SendEv(Str("SEND_FILE"), TRUE),
                     SendEv(args[2], TRUE),
                     SendEv(args[1], FALSE)>>
        /\ Sent(log)[3] = args[1]
        /\ SendsFirst
        /\ Len(Recvs) >= 1
        /\ Recvs[1].msg = Str("OK") =>
              Len(Recvs) = 1 /\ outcome.status = "return"
        /\ Recvs[1].msg = Str("ERROR") =>
              /\ Len(Recvs) = 2
              /\ Completed =>
                    /\ outcome.status = "raise"
                    /\ IsStr(Recvs[2].msg) =>
                          /\ outcome.exc = "InvalidPathException"
                          /\ outcome.value = Recvs[2].msg

C9_Witness ==
    /\ Ran("send_file")
    /\ args[1] = RawBytes(<<255, 0>>)
    /\ Recvs = <<RecvEv(Str("ERROR"), TRUE),
                 RecvEv(Str("unknown command"), TRUE)>>
    /\ outcome.exc = "InvalidPathException"

\* C10: GET_FILE sends GET_FILE then the remote name; on OK it receives
\* exactly one binary message and returns those bytes as they came, without
\* text decoding; on ERROR it receives exactly one text detail message,
\* raises an error carrying it, and never asks for the binary payload.
C10_GetFileExchange ==
    Ran("get_file") =>
        /\ Sends = <<SendEv(Str("GET_FILE"), TRUE), SendEv(args[1], TRUE)>>
        /\ SendsFirst
        /\ Len(Recvs) >= 1
        /\ Recvs[1].decode
        /\ Recvs[1].msg = Str("OK") =>
              /\ Len(Recvs) = 2
              /\ ~Recvs[2].decode
              /\ Recvs[2].msg # None =>
                    /\ outcome.status = "return"
                    /\ outcome.value = (pre \o reply)[2]
                    /\ IsBytes(outcome.value)
        /\ Recvs[1].msg = Str("ERROR") =>
              /\ Len(Recvs) = 2
              /\ Recvs[2].decode
              /\ IsStr(Recvs[2].msg) =>
                    /\ outcome.status = "raise"
                    /\ outcome.exc = "OpenLISAException"
                    /\ outcome.value = Recvs[2].msg

C10_Witness ==
    /\ Ran("get_file")
    /\ Recvs = <<RecvEv(Str("OK"), TRUE), RecvEv(RawBytes(<<255, 0>>), FALSE)>>
    /\ outcome.status = "return"
    /\ outcome.value = RawBytes(<<255, 0>>)

---------------------------------------------------------------------------
(* C11 .. C20 *)

\* C11: DISCONNECT sends exactly one message, the command name, receives no
\* response message and then closes the transport: the close comes strictly
\* after the send, and afterwards the protocol is disconnected.  (On a
\* transport that is already closed nothing is sent.)
C11_DisconnectExchange ==
    op = "disconnect" =>
        \/ /\ log = <<SendEv(Str("DISCONNECT"), TRUE), CloseEv>>
           /\ outcome = [status |-> "return", exc |-> "", value |-> None]
           /\ ~open
           /\ chan = pre \o reply
           /\ reply = <<>>
        \/ /\ log = <<>>
           /\ outcome.exc = "ClosedChannelError"
           /\ ~open

C11_Witness ==
    /\ Ran("disconnect")
    /\ log = <<SendEv(Str("DISCONNECT"), TRUE), CloseEv>>
    /\ outcome.status = "return"
    /\ ~open

\* C15: every create-instrument operation of the Client Protocol sends the
\* command name CREATE_INSTRUMENT followed by exactly one message, the
\* JSON-serialized instrument body, and no other command name.
C15_CreateInstrumentSends ==
    (op \in {"create_instrument", "create_instrument_as_json_string"}
     /\ outcome.exc # "ClosedChannelError") =>
        Sends = <<SendEv(Str("CREATE_INSTRUMENT"), TRUE),
                  SendEv(Str("{\"brand\": \"RIGOL\", \"model\": \"DS1\"}"),
                         TRUE)>>

\* C16: in every command operation the status tag is validated before any
\* further message is received: when the first response message is neither
\* OK nor ERROR the operation raises the protocol violation having issued
\* exactly one receive.
C16_TagValidatedBeforeNextReceive ==
    (/\ op \notin {"", "disconnect", "get_instruments_as_json_string",
                   "get_instruments", "reset_databases"}
     /\ Recvs # <<>>
     /\ IsStr(Recvs[1].msg)
     /\ Recvs[1].msg.s \notin {"OK", "ERROR"}) =>
        /\ Len(Recvs) = 1
        /\ outcome.status = "raise"
        /\ outcome.exc = "Exception"

\* C17: for every value passed as capture_stdout / capture_stderr the flag
\* message on the wire is exactly "True" or "False", and execute_bash_command
\* receives a stdout (resp. stderr) message iff the flag text it sent was
\* "True": the number of receives agrees with what was sent.
C17_FlagTextAndReads ==
    Ran("execute_bash_command") =>
        LET out == Sends[3].msg = Str("True")
            err == Sends[4].msg = Str("True")
            n   == 1 + (IF out THEN 1 ELSE 0) + (IF err THEN 1 ELSE 0)
        IN  /\ Sends[3].msg \in {Str("True"), Str("False")}
            /\ Sends[4].msg \in {Str("True"), Str("False")}
            /\ Len(Recvs) <= n
            /\ outcome.status = "return" => Len(Recvs) = n

\* C12: given N serial candidates of which only candidate k echoes the
\* correct greeting, discovery ends with the client protocol bound to the
\* connection opened on candidate k; the candidates are probed in
\* enumeration order and none after k is opened or probed.
C12_DiscoveryBindsOnlyMatch ==
    (rs.called /\ Cardinality(Matches) = 1) =>
        LET k == CHOOSE i \in Matches : TRUE
        IN  /\ rs.d.status = "return"
            /\ rs.d.client_protocol = SerialOn(Candidates[k])
            /\ open
            /\ Probed = SubSeq(Candidates, 1, k)

\* C13: if no candidate echoes the correct greeting, discovery raises the
\* Discovery Error after every candidate has been probed, and installs no
\* client protocol.
C13_NoMatchRaisesDiscoveryError ==
    (rs.called /\ Matches = {}) =>
        /\ DiscoveryError
        /\ Probed = Candidates
        /\ rs.d.client_protocol = None
        /\ ~open

\* C14: every per-candidate failure (open, buffer configuration, write, a
\* reply that is not the greeting, undecodable bytes included) is swallowed
\* and the loop goes on with the next candidate: the only error discovery
\* raises is the Discovery Error, and up to the first match every candidate
\* is probed.
C14_CandidateFailuresSwallowed ==
    rs.called =>
        /\ rs.d.status = "raise" => DiscoveryError
        /\ \A k \in 1..Len(Candidates) :
              (\A j \in 1..(k - 1) : ~Echoes(Candidates[j])) =>
                  (Len(Probed) >= k /\ Probed[k] = Candidates[k])

\* C18: a candidate that was opened but did not answer with the greeting is
\* closed before discovery moves on: when discovery returns or raises, the
\* only serial connection still open is the one returned (none when it
\* raises).
C18_OnlyReturnedConnectionOpen ==
    (rs.called /\ rs.d.status \in {"return", "raise"}) =>
        rs.d.still_open = (IF rs.d.status = "return"
                             THEN {rs.d.client_protocol.port} ELSE {})

\* C19 as stated: on each candidate that opens, the handshake calls are, in
\* this order and each exactly once, set_buffer_size with the oversized
\* sizes, write of "OPEN", read of len("LISA") = 4 bytes; a candidate is
\* accepted only if the bytes read are non-empty and decode to exactly
\* "LISA".
C19_EachStepExactlyOnce ==
    rs.called =>
        /\ \A i \in 1..Len(Probed) :
              LET p == Probed[i]
              IN  rs.env.devices[p].fails # "open" =>
                     CallsOn(p) =
                        <<BufferEv(p, "4294967295", "4294967295"),
                          WriteEv(p, <<79, 80, 69, 78>>),
                          ReadEv(p, 4)>>
        /\ rs.d.status = "return" =>
              /\ rs.d.client_protocol.port = Probed[Len(Probed)]
              /\ Echoes(rs.d.client_protocol.port)

\* C19 amended: on each candidate that opens, the handshake calls are, in
\* this order and each at most once, set_buffer_size with the oversized
\* sizes, write of "OPEN", read of len("LISA") = 4 bytes, up to the first
\* call that raises a serial error: the calls after it are not made, and
\* all three are made exactly once when none raises.  The greeting is
\* written at most once per connection, and a candidate is accepted only if
\* the bytes read are non-empty and decode to exactly "LISA".
C19_HandshakeOrder ==
    rs.called =>
        /\ \A i \in 1..Len(Probed) :
              LET p == Probed[i]
                  f == rs.env.devices[p].fails
                  h == <<BufferEv(p, "4294967295", "4294967295"),
                         WriteEv(p, <<79, 80, 69, 78>>),
                         ReadEv(p, 4)>>
              IN  CallsOn(p) =
                     SubSeq(h, 1, CASE f = "open"            -> 0
                                    [] f = "set_buffer_size" -> 1
                                    [] f = "write"           -> 2
                                    [] OTHER                 -> 3)
        /\ rs.d.status = "return" =>
              /\ rs.d.client_protocol.port = Probed[Len(Probed)]
              /\ Echoes(rs.d.client_protocol.port)

C19_Witness ==
    /\ rs.called
    /\ rs.d.status = "return"
    /\ rs.d.client_protocol = SerialOn("COM2")
    /\ rs.env.devices["COM2"].reply = <<76, 73, 83, 65>>
    /\ CallsOn("COM2") = <<BufferEv("COM2", "4294967295", "4294967295"),
                           WriteEv("COM2", <<79, 80, 69, 78>>),
                           ReadEv("COM2", 4)>>
    /\ CallsOn("COM1") = <<BufferEv("COM1", "4294967295", "4294967295"),
                           WriteEv("COM1", <<79, 80, 69, 78>>)>>

\* C20: with an explicit port the candidate set is exactly that port: no
\* other device is opened or greeted; with no port the candidates are the
\* devices the OS enumeration reports, probed in its order (all of them
\* when discovery ends with the Discovery Error).
C20_CandidateSet ==
    rs.called =>
        IF rs.port \in {None, Str("")}
          THEN /\ \E n \in 0..Len(rs.env.comports) :
                     Probed = SubSeq(rs.env.comports, 1, n)
               /\ DiscoveryError => Probed = rs.env.comports
        ELSE /\ Probed = <<rs.port.s>>
             /\ \A i \in 1..Len(rs.d.trace) : rs.d.trace[i].port = rs.port.s

C20_Witness ==
    /\ rs.called
    /\ rs.port = Str("COM2")
    /\ rs.env.comports = <<"COM1", "COM2", "COM3">>
    /\ Echoes("COM1")
    /\ rs.d.status = "return"
    /\ rs.d.client_protocol = SerialOn("COM2")
    /\ Probed = <<"COM2">>

---------------------------------------------------------------------------
(* C21 .. C22 *)

\* C21: ClientProtocol.disconnect closes the underlying transport in every
\* execution, the one where sending DISCONNECT fails with a transport error
\* included: no outcome of disconnect leaves the transport open.
C21_DisconnectAlwaysCloses ==
    op = "disconnect" => ~open

\* C22: connect_through_TCP has exactly two outcomes: it installs a client
\* protocol on a connected socket, or it raises
\* CouldNotConnectToServerException and installs nothing; every failure
\* inside it (a port that is not convertible to an integer, socket creation
\* failure, connection refused) ends in CouldNotConnectToServerException.
C22_ConnectOrCouldNotConnect ==
    tcp.called =>
        \/ /\ tcp.status = "return"
           /\ tcp.net = "connected"
           /\ tcp.client_protocol # None
           /\ tcp.client_protocol.host = tcp.host.s
        \/ /\ tcp.status = "raise"
           /\ tcp.exc = "CouldNotConnectToServerException"
           /\ tcp.client_protocol = tcp.before

===========================================================================
